---- MODULE Spec2Model ----
(***************************************************************************)
(* Model of client/benchmarkconsumer.go: the BenchmarkConsumer of cartero. *)
(* One feeder goroutine (findDownloadableObjectsBenchmark), Concurrency    *)
(* worker goroutines (downloadObjectsBenchmark), and the exported methods  *)
(* NextObject, Close and Metrics called from outside, over a ring of       *)
(* Concurrency slots with two mutexes each.                                *)
(*                                                                         *)
(* Mutexes are booleans (TRUE = locked).  The unbuffered channels are      *)
(* rendezvous: a send and its receive are one joint step.  A Go panic or   *)
(* fatal error in any goroutine ends the process: it is recorded in        *)
(* `panicked` and no step is possible afterwards.                          *)
(***************************************************************************)
EXTENDS Integers, Sequences, FiniteSets, TLC

\* Bounds of the model.
MaxConcurrency == 2     \* largest worker/slot count explored
MaxKeys == 2            \* largest listing explored
MaxSize == 1            \* largest object size (bytes) explored
MaxCalls == 3           \* NextObject calls the caller makes
MaxCloses == 2          \* Close calls the caller makes
MaxToggles == 2         \* writes of CollectMetrics the caller makes

VARIABLES
    Concurrency,                \* package-level worker count
    constructed,                \* "new" | "ok" | "err": outcome of NewBenchmarkConsumer
    panicked,                   \* "none" or the cause of the process-ending panic
    objectNames,                \* the feeder's listing (keys 1..K)
    readLock,                   \* objects[i].readLock
    changeObjectLock,           \* objects[i].changeObjectLock
    name,                       \* objects[i].name (0 = "")
    size,                       \* objects[i].size
    done,                       \* TRUE once the done channel is closed
    closeCalls,                 \* number of Close calls made
    CollectMetrics,             \* the exported toggle
    toggles,                    \* number of writes of CollectMetrics made
    fpc,                        \* feeder position
    bufferPosition,             \* feeder local bufferPosition
    index,                      \* feeder local index (replay loop)
    rangeIdx,                   \* feeder position in `for _, name := range objectNames`
    stopLogged,                 \* feeder logged "Stop feeding downloadable objects"
    published,                  \* assignments sent on downloadTasks, in order
    worker,                     \* worker goroutines' local state
    cpc,                        \* NextObject position of the single caller
    nextObjectBufferPosition,
    bytesConsumed,
    filesConsumed,
    observed,                   \* <<slot, name>> read by each NextObject call
    mpc,                        \* Metrics position
    mcount,                     \* Metrics loop counter
    mLatencies,                 \* Metrics local latencies (a count of samples)
    mFiles,                     \* Metrics local filesDownloaded
    mBytes,                     \* Metrics local bytesDownloaded
    mReceived,                  \* values received per worker: [lat, files, bytes] counts
    report,                     \* the MinioMetrics returned
    samplesDue                  \* non-empty downloads completed with collection enabled

vars == <<Concurrency, constructed, panicked, objectNames, readLock,
          changeObjectLock, name, size, done, closeCalls, CollectMetrics,
          toggles, fpc, bufferPosition, index, rangeIdx, stopLogged, published, worker,
          cpc, nextObjectBufferPosition, bytesConsumed, filesConsumed,
          observed, mpc, mcount, mLatencies, mFiles, mBytes, mReceived,
          report, samplesDue>>

slotVars == <<readLock, changeObjectLock, name, size>>
feederVars == <<fpc, bufferPosition, index, rangeIdx, stopLogged, published, objectNames>>
consumerVars == <<cpc, nextObjectBufferPosition, bytesConsumed, filesConsumed, observed>>
metricsVars == <<mpc, mcount, mLatencies, mFiles, mBytes, mReceived, report>>
envVars == <<Concurrency, constructed, done, closeCalls, CollectMetrics, toggles>>

Slots == 0 .. Concurrency - 1
Workers == 1 .. Concurrency

Running == constructed = "ok" /\ panicked = "none"

\* A worker's locals: latencies is the number of samples in the slice.
IdleWorker ==
    [pc |-> "select", name |-> 0, bufferPosition |-> 0, latencies |-> 0,
     filesDownloaded |-> 0, bytesDownloaded |-> 0]

NoReport == [FilesDownloaded |-> -1, BytesDownloaded |-> -1, FilesConsumed |-> -1,
             BytesConsumed |-> -1, FirstByteLatencies |-> -1]

----------------------------------------------------------------------------
\* Construction

\* State shared by "before construction" and "after construction".
Blank ==
    /\ panicked = "none"
    /\ objectNames = << >>
    /\ done = FALSE
    /\ closeCalls = 0
    /\ CollectMetrics = FALSE
    /\ toggles = 0
    /\ bufferPosition = 0
    /\ index = 0
    /\ rangeIdx = 0
    /\ stopLogged = FALSE
    /\ published = << >>
    /\ cpc = "idle"
    /\ nextObjectBufferPosition = 0
    /\ bytesConsumed = 0
    /\ filesConsumed = 0
    /\ observed = << >>
    /\ mpc = "idle"
    /\ mcount = 0
    /\ mLatencies = 0
    /\ mFiles = 0
    /\ mBytes = 0
    /\ report = NoReport
    /\ samplesDue = 0

\* objects[i] after the constructor's loop: readLock locked, the rest zero.
NewReadLock(N) == [i \in 0 .. N - 1 |-> TRUE]
NewChangeObjectLock(N) == [i \in 0 .. N - 1 |-> FALSE]
NewName(N) == [i \in 0 .. N - 1 |-> 0]
NewSize(N) == [i \in 0 .. N - 1 |-> 0]
NewWorkers(N) == [w \in 1 .. N |-> IdleWorker]
NewReceived(N) == [w \in 1 .. N |-> <<0, 0, 0>>]

\* The state NewBenchmarkConsumer returns with, the goroutines started, for a
\* valid worker count (Concurrency >= 1).  InitNew, below, starts before the
\* constructor runs and lets Concurrency be 0 as well.
Init ==
    /\ Concurrency \in 1 .. MaxConcurrency
    /\ constructed = "ok"
    /\ Blank
    /\ readLock = NewReadLock(Concurrency)
    /\ changeObjectLock = NewChangeObjectLock(Concurrency)
    /\ name = NewName(Concurrency)
    /\ size = NewSize(Concurrency)
    /\ worker = NewWorkers(Concurrency)
    /\ mReceived = NewReceived(Concurrency)
    /\ fpc = "list"

----------------------------------------------------------------------------
\* Feeder: findDownloadableObjectsBenchmark

Panic(cause) == panicked' = cause

\* ListObjects: an error entry panics; otherwise the K keys are collected.
FeederList ==
    /\ Running /\ fpc = "list"
    /\ \/ /\ Panic("listing")
          /\ UNCHANGED <<feederVars>>
       \/ /\ \E K \in 0 .. MaxKeys :
                /\ objectNames' = [k \in 1 .. K |-> k]
                /\ fpc' = IF K = 0 THEN "select" ELSE "rangeLock"
                /\ rangeIdx' = IF K = 0 THEN 0 ELSE 1
          /\ UNCHANGED <<panicked, bufferPosition, index, stopLogged, published>>
    /\ UNCHANGED <<envVars, slotVars, worker, consumerVars, metricsVars, samplesDue>>

\* Mutant of FeederLock: the feeder takes the slot without waiting for its
\* changeObjectLock to be free.
FeederLockNoWait(from, to) ==
    /\ Running /\ fpc = from
    /\ bufferPosition \in Slots
    /\ changeObjectLock' = [changeObjectLock EXCEPT ![bufferPosition] = TRUE]
    /\ fpc' = to
    /\ UNCHANGED <<envVars, panicked, readLock, name, size, bufferPosition, index,
                   rangeIdx, stopLogged, published, objectNames, worker,
                   consumerVars, metricsVars, samplesDue>>

\* c.objects[bufferPosition]; changeObjectLock.Lock() of either loop.
FeederLock(from, to) ==
    /\ Running /\ fpc = from
    /\ IF bufferPosition \notin Slots
       THEN /\ Panic("index")
            /\ UNCHANGED <<fpc, changeObjectLock>>
       ELSE /\ ~changeObjectLock[bufferPosition]
            /\ changeObjectLock' = [changeObjectLock EXCEPT ![bufferPosition] = TRUE]
            /\ fpc' = to
            /\ UNCHANGED panicked
    /\ UNCHANGED <<envVars, readLock, name, size, bufferPosition, index, rangeIdx,
                   stopLogged, published, objectNames, worker, consumerVars,
                   metricsVars, samplesDue>>

FeederRangeLock == FeederLock("rangeLock", "rangeSend")

FeederLoopLock == FeederLock("loopLock", "loopSend")

\* Mutant of FeederSelectDone: on the shutdown signal the feeder logs and returns.
FeederSelectDoneReturns ==
    /\ Running /\ fpc = "select" /\ done
    /\ stopLogged' = TRUE
    /\ fpc' = "returned"
    /\ UNCHANGED <<envVars, panicked, slotVars, bufferPosition, index, rangeIdx,
                   published, objectNames, worker, consumerVars, metricsVars,
                   samplesDue>>

\* select in the replay loop, case <-c.done: log and go round again.
FeederSelectDone ==
    /\ Running /\ fpc = "select" /\ done
    /\ stopLogged' = TRUE
    /\ UNCHANGED <<envVars, panicked, slotVars, fpc, bufferPosition, index, rangeIdx,
                   published, objectNames, worker, consumerVars, metricsVars,
                   samplesDue>>

\* Mutant of FeederSelectDefault: the replay loop goes on without looking at the
\* shutdown signal.
FeederSelectDefaultNoCheck ==
    /\ Running /\ fpc = "select"
    /\ index + 1 \in DOMAIN objectNames
    /\ fpc' = "loopLock"
    /\ UNCHANGED <<envVars, panicked, slotVars, bufferPosition, index, rangeIdx,
                   stopLogged, published, objectNames, worker, consumerVars,
                   metricsVars, samplesDue>>

\* select in the replay loop, default: current := objectNames[index].
FeederSelectDefault ==
    /\ Running /\ fpc = "select" /\ ~done
    /\ IF index + 1 \notin DOMAIN objectNames
       THEN Panic("index") /\ UNCHANGED fpc
       ELSE fpc' = "loopLock" /\ UNCHANGED panicked
    /\ UNCHANGED <<envVars, slotVars, bufferPosition, index, rangeIdx, stopLogged,
                   published, objectNames, worker, consumerVars, metricsVars,
                   samplesDue>>

FeederSending == fpc \in {"rangeSend", "loopSend"}

\* The key the feeder is sending.
FeederCurrent ==
    IF fpc = "rangeSend" THEN objectNames[rangeIdx] ELSE objectNames[index + 1]

----------------------------------------------------------------------------
\* Workers: downloadObjectsBenchmark

\* Mutant of FeederAfterSend: the replay loop starts again at slot 0 instead of
\* going on from the slot the first pass ended on.
FeederAfterSendResetSlot ==
    /\ published' = Append(published, <<FeederCurrent, bufferPosition>>)
    /\ IF fpc = "rangeSend"
       THEN /\ rangeIdx' = IF rangeIdx = Len(objectNames) THEN 0 ELSE rangeIdx + 1
            /\ fpc' = IF rangeIdx = Len(objectNames) THEN "select" ELSE "rangeLock"
            /\ bufferPosition' = IF rangeIdx = Len(objectNames) THEN 0
                                 ELSE (bufferPosition + 1) % Concurrency
            /\ UNCHANGED index
       ELSE /\ index' = (index + 1) % Len(objectNames)
            /\ bufferPosition' = (bufferPosition + 1) % Concurrency
            /\ fpc' = "select"
            /\ UNCHANGED rangeIdx

\* The feeder's locals after its send on downloadTasks completed.
FeederAfterSend ==
    /\ published' = Append(published, <<FeederCurrent, bufferPosition>>)
    /\ bufferPosition' = (bufferPosition + 1) % Concurrency
    /\ IF fpc = "rangeSend"
       THEN /\ rangeIdx' = IF rangeIdx = Len(objectNames) THEN 0 ELSE rangeIdx + 1
            /\ fpc' = IF rangeIdx = Len(objectNames) THEN "select" ELSE "rangeLock"
            /\ UNCHANGED index
       ELSE /\ index' = (index + 1) % Len(objectNames)
            /\ fpc' = "select"
            /\ UNCHANGED rangeIdx

\* select, case downloadTask := <-c.downloadTasks (joint with the feeder's send),
\* then benchmarkObjectInDownload.name = downloadTask.name.
WorkerReceive(w) ==
    /\ Running /\ worker[w].pc = "select" /\ FeederSending
    /\ worker' = [worker EXCEPT ![w].pc = "download",
                                ![w].name = FeederCurrent,
                                ![w].bufferPosition = bufferPosition]
    /\ name' = [name EXCEPT ![bufferPosition] = FeederCurrent]
    /\ FeederAfterSend
    /\ UNCHANGED <<envVars, panicked, readLock, changeObjectLock, size, stopLogged,
                   objectNames, consumerVars, metricsVars, samplesDue>>

\* firstByteRecorder.Read sets f.t only when a read returned n > 0, so after
\* io.Copy read n bytes in all, fbr.t is non-nil exactly when n > 0.
FirstByteSeen(n) == n > 0

\* Mutant of WorkerCounted: the zero-size branch appends a latency sample too.
WorkerCountedZeroSample(w, s, n) ==
    IF ~CollectMetrics THEN worker[w]
    ELSE [worker[w] EXCEPT !.latencies = @ + 1,
                           !.filesDownloaded = @ + 1,
                           !.bytesDownloaded = @ + s]

\* Mutant of WorkerCounted: the counters are updated whatever the toggle says.
WorkerCountedAlways(w, s, n) ==
    IF s = 0 THEN [worker[w] EXCEPT !.filesDownloaded = @ + 1]
    ELSE [worker[w] EXCEPT !.latencies = @ + 1,
                           !.filesDownloaded = @ + 1,
                           !.bytesDownloaded = @ + s]

\* The worker's locals after the metrics block of a download with Stat size s
\* that read n bytes (s = 0: the zero-size branch, which only counts the file).
WorkerCounted(w, s, n) ==
    IF ~CollectMetrics THEN worker[w]
    ELSE IF s = 0 THEN [worker[w] EXCEPT !.filesDownloaded = @ + 1]
    ELSE [worker[w] EXCEPT !.latencies = @ + 1,
                           !.filesDownloaded = @ + 1,
                           !.bytesDownloaded = @ + s]

\* benchmarkObjectInDownload.size = n; readLock.Unlock(); back to the select.
\* Unlocking an unlocked sync.Mutex is a fatal error.
WorkerUnlock(w, counted, n) ==
    LET pos == worker[w].bufferPosition IN
    /\ size' = [size EXCEPT ![pos] = n]
    /\ IF readLock[pos]
       THEN /\ readLock' = [readLock EXCEPT ![pos] = FALSE]
            /\ worker' = [worker EXCEPT ![w] = [counted EXCEPT !.pc = "select",
                                                               !.name = 0,
                                                               !.bufferPosition = 0]]
            /\ UNCHANGED panicked
       ELSE /\ Panic("unlock")
            /\ UNCHANGED <<readLock, worker>>

\* Mutant of WorkerDownloadFail: the error path releases the slot's readLock
\* before the worker returns.
WorkerDownloadFailUnlock(w) ==
    /\ worker' = [worker EXCEPT ![w].pc = "failed"]
    /\ readLock' = [readLock EXCEPT ![worker[w].bufferPosition] = FALSE]
    /\ UNCHANGED <<panicked, size, samplesDue>>

\* GetObject or Stat returns an error: log and return, the slot left as it is.
WorkerDownloadFail(w) ==
    /\ worker' = [worker EXCEPT ![w].pc = "failed"]
    /\ UNCHANGED <<panicked, readLock, size, samplesDue>>

\* stats.Size == 0: count the file under the toggle, size = 0, unlock, continue.
WorkerDownloadZero(w) ==
    /\ WorkerUnlock(w, WorkerCounted(w, 0, 0), 0)
    /\ UNCHANGED samplesDue

\* stats.Size = s > 0 and io.Copy read n bytes (n # s or an error is only
\* logged): the metrics block, where fbr.t.Sub(start) dereferences fbr.t, nil
\* when no byte was read; then size = n and unlock.
WorkerDownloadData(w, s, n) ==
    IF CollectMetrics /\ ~FirstByteSeen(n)
    THEN /\ Panic("nilderef")
         /\ UNCHANGED <<worker, readLock, size, samplesDue>>
    ELSE /\ WorkerUnlock(w, WorkerCounted(w, s, n), n)
         /\ samplesDue' = IF CollectMetrics THEN samplesDue + 1 ELSE samplesDue

\* The body of the downloadTask case after the name was stored: GetObject and
\* Stat (either may fail: the worker returns), the zero-size branch, or the
\* copy of a non-empty object.
WorkerDownload(w) ==
    /\ Running /\ worker[w].pc = "download"
    /\ \/ WorkerDownloadFail(w)
       \/ WorkerDownloadZero(w)
       \/ \E s \in 1 .. MaxSize, n \in 0 .. MaxSize : WorkerDownloadData(w, s, n)
    /\ UNCHANGED <<envVars, changeObjectLock, name, feederVars, consumerVars,
                   metricsVars>>

\* Mutant of WorkerSelectDone: the worker reports without the shutdown signal.
WorkerSelectDoneNoWait(w) ==
    /\ Running /\ worker[w].pc = "select"
    /\ worker' = [worker EXCEPT ![w].pc = "sendLatencies"]
    /\ UNCHANGED <<envVars, panicked, slotVars, feederVars, consumerVars, metricsVars,
                   samplesDue>>

\* select, case <-c.done.
WorkerSelectDone(w) ==
    /\ Running /\ worker[w].pc = "select" /\ done
    /\ worker' = [worker EXCEPT ![w].pc = "sendLatencies"]
    /\ UNCHANGED <<envVars, panicked, slotVars, feederVars, consumerVars, metricsVars,
                   samplesDue>>

----------------------------------------------------------------------------
\* The exported methods, called from outside

\* NextObject entry: benchmarkObject := c.objects[c.nextObjectBufferPosition].
NextObjectCall ==
    /\ Running /\ cpc = "idle" /\ Len(observed) < MaxCalls
    /\ IF nextObjectBufferPosition \notin Slots
       THEN Panic("index") /\ UNCHANGED cpc
       ELSE cpc' = "lock" /\ UNCHANGED panicked
    /\ UNCHANGED <<envVars, slotVars, feederVars, worker, nextObjectBufferPosition,
                   bytesConsumed, filesConsumed, observed, metricsVars, samplesDue>>

\* Mutant of NextObjectLock: the caller reads the slot without waiting for its
\* readLock to be released by a worker.
NextObjectLockNoWait ==
    /\ Running /\ cpc = "lock"
    /\ readLock' = [readLock EXCEPT ![nextObjectBufferPosition] = TRUE]
    /\ observed' = Append(observed,
                          <<nextObjectBufferPosition, name[nextObjectBufferPosition]>>)
    /\ cpc' = "unlock"
    /\ UNCHANGED <<envVars, panicked, changeObjectLock, name, size, feederVars, worker,
                   nextObjectBufferPosition, bytesConsumed, filesConsumed,
                   metricsVars, samplesDue>>

\* benchmarkObject.readLock.Lock(), then the name is read for the log line.
NextObjectLock ==
    /\ Running /\ cpc = "lock"
    /\ ~readLock[nextObjectBufferPosition]
    /\ readLock' = [readLock EXCEPT ![nextObjectBufferPosition] = TRUE]
    /\ observed' = Append(observed,
                          <<nextObjectBufferPosition, name[nextObjectBufferPosition]>>)
    /\ cpc' = "unlock"
    /\ UNCHANGED <<envVars, panicked, changeObjectLock, name, size, feederVars, worker,
                   nextObjectBufferPosition, bytesConsumed, filesConsumed,
                   metricsVars, samplesDue>>

\* Mutant of NextObjectUnlock: the caller releases readLock as well, as after an
\* ordinary critical section.
NextObjectUnlockBoth ==
    /\ Running /\ cpc = "unlock"
    /\ IF CollectMetrics
       THEN /\ bytesConsumed' = bytesConsumed + size[nextObjectBufferPosition]
            /\ filesConsumed' = filesConsumed + 1
       ELSE UNCHANGED <<bytesConsumed, filesConsumed>>
    /\ changeObjectLock' = [changeObjectLock EXCEPT ![nextObjectBufferPosition] = FALSE]
    /\ readLock' = [readLock EXCEPT ![nextObjectBufferPosition] = FALSE]
    /\ cpc' = "idle"
    /\ UNCHANGED <<envVars, panicked, name, size, feederVars, worker,
                   nextObjectBufferPosition, observed, metricsVars, samplesDue>>

\* bytesConsumed and filesConsumed under the toggle, then
\* benchmarkObject.changeObjectLock.Unlock() and return nil.  The method assigns
\* nothing to c.nextObjectBufferPosition.  Unlocking an unlocked sync.Mutex is
\* a fatal error.
NextObjectUnlock ==
    /\ Running /\ cpc = "unlock"
    /\ IF CollectMetrics
       THEN /\ bytesConsumed' = bytesConsumed + size[nextObjectBufferPosition]
            /\ filesConsumed' = filesConsumed + 1
       ELSE UNCHANGED <<bytesConsumed, filesConsumed>>
    /\ IF changeObjectLock[nextObjectBufferPosition]
       THEN /\ changeObjectLock' =
                   [changeObjectLock EXCEPT ![nextObjectBufferPosition] = FALSE]
            /\ cpc' = "idle"
            /\ UNCHANGED panicked
       ELSE /\ Panic("unlock")
            /\ UNCHANGED <<changeObjectLock, cpc>>
    /\ UNCHANGED <<envVars, readLock, name, size, feederVars, worker,
                   nextObjectBufferPosition, observed, metricsVars, samplesDue>>

\* Close: close(c.done); closing a closed channel panics.
Close ==
    /\ Running /\ closeCalls < MaxCloses
    /\ closeCalls' = closeCalls + 1
    /\ IF done
       THEN Panic("closeclosed") /\ UNCHANGED done
       ELSE done' = TRUE /\ UNCHANGED panicked
    /\ UNCHANGED <<Concurrency, constructed, CollectMetrics, toggles, slotVars,
                   feederVars, worker, consumerVars, metricsVars, samplesDue>>

\* The caller sets the exported CollectMetrics field under CollectMetricsLock.
SetCollectMetrics ==
    /\ Running /\ toggles < MaxToggles
    /\ toggles' = toggles + 1
    /\ CollectMetrics' = ~CollectMetrics
    /\ UNCHANGED <<Concurrency, constructed, done, closeCalls, panicked, slotVars,
                   feederVars, worker, consumerVars, metricsVars, samplesDue>>

\* Metrics entry: the first `for range Concurrency`.
MetricsCall ==
    /\ Running /\ mpc = "idle"
    /\ mpc' = IF Concurrency = 0 THEN "return" ELSE "recvLatencies"
    /\ UNCHANGED <<envVars, panicked, slotVars, feederVars, worker, consumerVars,
                   mcount, mLatencies, mFiles, mBytes, mReceived, report, samplesDue>>

\* latencies = append(latencies, <-c.returnLatencies...), joint with worker w's send.
MetricsRecvLatencies(w) ==
    /\ Running /\ mpc = "recvLatencies" /\ worker[w].pc = "sendLatencies"
    /\ mLatencies' = mLatencies + worker[w].latencies
    /\ mReceived' = [mReceived EXCEPT ![w][1] = @ + 1]
    /\ worker' = [worker EXCEPT ![w].pc = "sendFiles"]
    /\ mcount' = IF mcount + 1 = Concurrency THEN 0 ELSE mcount + 1
    /\ mpc' = IF mcount + 1 = Concurrency THEN "recvFiles" ELSE "recvLatencies"
    /\ UNCHANGED <<envVars, panicked, slotVars, feederVars, consumerVars, mFiles,
                   mBytes, report, samplesDue>>

\* filesDownloaded += <-c.returnFilesDownloaded
MetricsRecvFiles(w) ==
    /\ Running /\ mpc = "recvFiles" /\ worker[w].pc = "sendFiles"
    /\ mFiles' = mFiles + worker[w].filesDownloaded
    /\ mReceived' = [mReceived EXCEPT ![w][2] = @ + 1]
    /\ worker' = [worker EXCEPT ![w].pc = "sendBytes"]
    /\ mpc' = "recvBytes"
    /\ UNCHANGED <<envVars, panicked, slotVars, feederVars, consumerVars, mcount,
                   mLatencies, mBytes, report, samplesDue>>

\* bytesDownloaded += <-c.returnBytesDownloaded; the sending worker returns.
MetricsRecvBytes(w) ==
    /\ Running /\ mpc = "recvBytes" /\ worker[w].pc = "sendBytes"
    /\ mBytes' = mBytes + worker[w].bytesDownloaded
    /\ mReceived' = [mReceived EXCEPT ![w][3] = @ + 1]
    /\ worker' = [worker EXCEPT ![w].pc = "returned"]
    /\ mcount' = mcount + 1
    /\ mpc' = IF mcount + 1 = Concurrency THEN "return" ELSE "recvFiles"
    /\ UNCHANGED <<envVars, panicked, slotVars, feederVars, consumerVars, mLatencies,
                   mFiles, report, samplesDue>>

\* return MinioMetrics{...}: the caller-side counters are read as they are at
\* the return.
MetricsReturn ==
    /\ Running /\ mpc = "return"
    /\ report' = [FilesDownloaded |-> mFiles, BytesDownloaded |-> mBytes,
                  FilesConsumed |-> filesConsumed, BytesConsumed |-> bytesConsumed,
                  FirstByteLatencies |-> mLatencies]
    /\ mpc' = "returned"
    /\ UNCHANGED <<envVars, panicked, slotVars, feederVars, worker, consumerVars,
                   mcount, mLatencies, mFiles, mBytes, mReceived, samplesDue>>

----------------------------------------------------------------------------
\* Specifications

Feeder ==
    \/ FeederList
    \/ FeederRangeLock
    \/ FeederLoopLock
    \/ FeederSelectDone
    \/ FeederSelectDefault

Worker(w) ==
    \/ WorkerReceive(w)
    \/ WorkerDownload(w)
    \/ WorkerSelectDone(w)

NextObject ==
    \/ NextObjectCall
    \/ NextObjectLock
    \/ NextObjectUnlock

Metrics ==
    \/ MetricsCall
    \/ \E w \in Workers : MetricsRecvLatencies(w)
    \/ \E w \in Workers : MetricsRecvFiles(w)
    \/ \E w \in Workers : MetricsRecvBytes(w)
    \/ MetricsReturn

Next ==
    \/ Feeder
    \/ \E w \in Workers : Worker(w)
    \/ NextObject
    \/ Close
    \/ SetCollectMetrics
    \/ Metrics

Spec == Init /\ [][Next]_vars

\* Scheduling: the Go scheduler runs every goroutine that can take a step, and
\* a caller inside NextObject or Metrics goes on when it can.  Whether the
\* caller calls NextObject, Close or Metrics at all, or writes CollectMetrics,
\* is up to the caller: no fairness.
WorkerOf(w) == w \in Workers /\ Worker(w)

Fairness ==
    /\ WF_vars(Feeder)
    /\ \A w \in 1 .. MaxConcurrency : WF_vars(WorkerOf(w))
    /\ WF_vars(NextObjectLock \/ NextObjectUnlock)
    /\ WF_vars(Metrics)

FairSpec == Spec /\ Fairness

----------------------------------------------------------------------------
\* Construction as a step, for the claims about NewBenchmarkConsumer itself

\* Outcomes of MinioClient(endpoint, accessKey, secretAccessKey, n): the client
\* is created or an error is returned (bad endpoint or credentials).
MinioClientOutcomes(n) == {"ok", "err"}

\* Before NewBenchmarkConsumer is called: no objects, no goroutines.  The
\* package-level Concurrency is any value, 0 included.
InitNew ==
    /\ Concurrency \in 0 .. MaxConcurrency
    /\ constructed = "new"
    /\ Blank
    /\ readLock = NewReadLock(0)
    /\ changeObjectLock = NewChangeObjectLock(0)
    /\ name = NewName(0)
    /\ size = NewSize(0)
    /\ worker = NewWorkers(0)
    /\ mReceived = NewReceived(0)
    /\ fpc = "notStarted"

\* NewBenchmarkConsumer: the only error return is MinioClient's; otherwise the
\* objects are allocated with readLock locked and the goroutines are started.
NewBenchmarkConsumer ==
    /\ constructed = "new"
    /\ \E r \in MinioClientOutcomes(Concurrency) :
         IF r = "err"
         THEN /\ constructed' = "err"
              /\ UNCHANGED <<slotVars, worker, mReceived, fpc>>
         ELSE /\ constructed' = "ok"
              /\ readLock' = NewReadLock(Concurrency)
              /\ changeObjectLock' = NewChangeObjectLock(Concurrency)
              /\ name' = NewName(Concurrency)
              /\ size' = NewSize(Concurrency)
              /\ worker' = NewWorkers(Concurrency)
              /\ mReceived' = NewReceived(Concurrency)
              /\ fpc' = "list"
    /\ UNCHANGED <<Concurrency, panicked, done, closeCalls, CollectMetrics, toggles,
                   objectNames, bufferPosition, index, rangeIdx, stopLogged,
                   published, consumerVars, mpc, mcount, mLatencies, mFiles, mBytes,
                   report, samplesDue>>

NextNew ==
    \/ NewBenchmarkConsumer
    \/ Next

SpecNew == InitNew /\ [][NextNew]_vars

----------------------------------------------------------------------------
\* Helpers of the properties

NoWorkerFailed == \A w \in DOMAIN worker : worker[w].pc # "failed"

\* Number of entries of the history h (pairs) whose component c equals i.
CountOf(h, c, i) == Cardinality({k \in 1 .. Len(h) : h[k][c] = i})

\* Assignments published for slot i; NextObject calls that acquired slot i's
\* readLock; those among them that also released its changeObjectLock.
Pub(i) == CountOf(published, 2, i)
Obs(i) == CountOf(observed, 1, i)
Drained(i) == Obs(i) - (IF cpc = "unlock" /\ nextObjectBufferPosition = i THEN 1 ELSE 0)

\* Workers between receiving an assignment for slot i and releasing its readLock
\* (a worker that returned on an error never releases it).
WorkersOn(i) ==
    {w \in DOMAIN worker : worker[w].pc \in {"download", "failed"}
                           /\ worker[w].bufferPosition = i}

\* The caller is between acquiring slot i's readLock and releasing its
\* changeObjectLock.
ConsumerOn(i) == cpc = "unlock" /\ nextObjectBufferPosition = i

----------------------------------------------------------------------------
\* C1: in-order delivery.  With no shutdown and no worker error, the k-th
\* NextObject call (k = 0, 1, ...) drains slot k mod N and observes key number
\* k mod K of the listing.
C1_InOrderDelivery ==
    (~done /\ NoWorkerFailed) =>
        \A k \in 1 .. Len(observed) :
            observed[k] = <<(k - 1) % Concurrency,
                            objectNames[((k - 1) % Len(objectNames)) + 1]>>

\* C2: cyclic replay.  While Close is not called and no worker fails, the
\* feeder, the workers and the caller of NextObject never all block for good:
\* never is the caller waiting for a readLock no worker will release while the
\* feeder waits for a changeObjectLock no NextObject call will release and every
\* worker waits for an assignment.
C2_Stalled ==
    /\ Running /\ ~done /\ NoWorkerFailed
    /\ Len(objectNames) >= 1
    /\ \A w \in Workers : worker[w].pc = "select"
    /\ fpc \in {"rangeLock", "loopLock"}
    /\ changeObjectLock[bufferPosition]
    /\ bufferPosition # nextObjectBufferPosition
    /\ cpc = "lock"
    /\ readLock[nextObjectBufferPosition]

C2_CyclicReplayNeverStalls == ~C2_Stalled

\* C3: mutual exclusion per slot.  At most one party operates on a slot: never
\* two workers with an assignment for the same slot, never a worker with an
\* assignment for the slot the caller is draining.
C3_MutualExclusion ==
    \A i \in Slots :
        Cardinality(WorkersOn(i)) + (IF ConsumerOn(i) THEN 1 ELSE 0) <= 1

\* A worker downloads into one slot while the caller drains another, after the
\* drained slot was filled by a worker.
C3_Witness ==
    /\ Concurrency = 2
    /\ ConsumerOn(0)
    /\ \E w \in Workers : worker[w].pc = "download" /\ worker[w].bufferPosition = 1

\* C4: slot state invariant.  No slot ever has both locks free: its pair
\* (readLock, changeObjectLock) is (held, held), (free, held) or (held, free).
C4_SlotStateInvariant ==
    \A i \in Slots : readLock[i] \/ changeObjectLock[i]

\* One slot ready (free, held), another filling (held, held), after the caller
\* already drained a slot once (so the three states have all occurred).
C4_Witness ==
    /\ Len(observed) >= 1 /\ cpc = "idle"
    /\ \E i, j \in Slots :
          /\ ~readLock[i] /\ changeObjectLock[i]
          /\ readLock[j] /\ changeObjectLock[j]

\* C5: strict alternation per slot.  Per slot the events come only in the order
\* feeder claims and publishes -> worker fills -> caller drains: at most one
\* assignment per slot is published and not yet drained, at most N in total,
\* and each lock transition happens only in the phase before it.
C5_Outstanding ==
    /\ \A i \in Slots : Pub(i) - Drained(i) \in {0, 1}
    /\ Len(published) - (Len(observed) - (IF cpc = "unlock" THEN 1 ELSE 0))
         <= Concurrency

C5_Step(i) ==
    \* the feeder claims only a drained slot
    /\ (~changeObjectLock[i] /\ changeObjectLock'[i])
          => (readLock[i] /\ Pub(i) = Drained(i))
    \* an assignment is published only for a claimed slot whose last one is drained
    /\ (Pub(i)' # Pub(i))
          => (Pub(i)' = Pub(i) + 1 /\ changeObjectLock[i] /\ readLock[i]
              /\ Pub(i) = Drained(i))
    \* a worker fills only a slot with a published, unfilled assignment
    /\ (readLock[i] /\ ~readLock'[i])
          => (changeObjectLock[i] /\ Pub(i) = Obs(i) + 1)
    \* the caller starts draining only a filled slot
    /\ (Obs(i)' # Obs(i))
          => (~readLock[i] /\ readLock'[i] /\ changeObjectLock[i]
              /\ Pub(i) = Obs(i) + 1)
    \* only the draining caller frees the slot
    /\ (changeObjectLock[i] /\ ~changeObjectLock'[i])
          => (readLock[i] /\ ConsumerOn(i) /\ Pub(i) = Obs(i))

C5_StrictAlternation ==
    /\ []C5_Outstanding
    /\ [][\A i \in Slots : C5_Step(i)]_vars

\* A slot went round the cycle twice while N assignments are outstanding.
C5_Witness ==
    /\ \E i \in Slots : Drained(i) >= 2
    /\ Len(published) - Len(observed) = Concurrency
    /\ cpc = "idle"

\* C6: aggregation barrier.  While Close has not been called, Metrics has not
\* returned and has received nothing, because no worker is sending on a return
\* channel or has returned after sending.
C6_AggregationBarrier ==
    ~done =>
        /\ mpc \notin {"return", "returned"}
        /\ \A w \in Workers :
              /\ worker[w].pc \notin {"sendLatencies", "sendFiles", "sendBytes",
                                      "returned"}
              /\ mReceived[w] = <<0, 0, 0>>

\* Metrics was called and waits on returnLatencies while objects are being
\* downloaded and drained, Close not called.
C6_Witness ==
    /\ ~done /\ mpc = "recvLatencies"
    /\ Len(observed) >= 1
    /\ \E w \in Workers : worker[w].latencies >= 1

\* C7: aggregation completes after shutdown.  After exactly one Close, with no
\* worker exited on a GetObject/Stat error (and the listing not failed), a
\* pending Metrics call is never left in a process that stopped: it can still
\* go on to return.
C7_MetricsCompletesAfterClose ==
    (/\ closeCalls = 1 /\ done
     /\ NoWorkerFailed
     /\ mpc \notin {"idle", "returned"}
     /\ panicked # "listing")
        => panicked = "none"

RECURSIVE SumOver(_, _)
\* Sum of f[w] over the workers in S.
SumOver(f, S) ==
    IF S = {} THEN 0
    ELSE LET w == CHOOSE x \in S : TRUE IN f[w] + SumOver(f, S \ {w})

\* C8: report content.  When Metrics returns, FirstByteLatencies has one sample
\* per non-empty download completed with collection enabled, FilesDownloaded
\* and BytesDownloaded are the sums of the workers' local counters (each worker
\* received from exactly once), FilesConsumed and BytesConsumed are the
\* caller-side counters.
C8_ReportAtReturn ==
    mpc = "returned" =>
        /\ report.FirstByteLatencies = samplesDue
        /\ report.FilesDownloaded =
              SumOver([w \in Workers |-> worker[w].filesDownloaded], Workers)
        /\ report.BytesDownloaded =
              SumOver([w \in Workers |-> worker[w].bytesDownloaded], Workers)
        /\ \A w \in Workers : mReceived[w] = <<1, 1, 1>>

C8_ReportContent ==
    /\ []C8_ReportAtReturn
    /\ [][(mpc = "return" /\ mpc' = "returned")
            => (/\ report'.FilesConsumed = filesConsumed
                /\ report'.BytesConsumed = bytesConsumed)]_vars

\* Metrics returned a report with a latency sample, a zero-size file counted
\* without one, and consumed files.
C8_Witness ==
    /\ mpc = "returned"
    /\ report.FirstByteLatencies >= 1
    /\ report.FilesDownloaded > report.FirstByteLatencies
    /\ report.FilesConsumed >= 1
    /\ report.BytesConsumed >= 1

\* C9: Close is idempotent.  After a second Close the process has not failed
\* and the shutdown signal is still set.
C9_CloseIdempotent ==
    closeCalls >= 2 => (panicked = "none" /\ done)

\* C10: construction with Concurrency = 0 is rejected.  NewBenchmarkConsumer
\* returns an error and starts no feeder, so nothing indexes the empty ring.
C10_ZeroRejected ==
    (Concurrency = 0 /\ constructed # "new") =>
        (constructed = "err" /\ fpc = "notStarted" /\ panicked = "none")

----------------------------------------------------------------------------
\* The counters of worker w.
Counters(w) ==
    <<worker[w].latencies, worker[w].filesDownloaded, worker[w].bytesDownloaded>>

\* Worker w's download got past GetObject and Stat in this step: it reached
\* its metrics check (and either went on or stopped the process there).
ReachedMetricsCheck(w) ==
    /\ Running /\ worker[w].pc = "download"
    /\ \/ worker'[w].pc = "select"
       \/ panicked' = "nilderef"

\* C11: toggle correctness.  A download that reaches its metrics check, and a
\* NextObject call that reaches its metrics check, while CollectMetrics is
\* false changes no counter and still completes its handshake step: the worker
\* releases readLock, the caller releases changeObjectLock.
C11_ToggleCorrectness ==
    [][~CollectMetrics =>
        /\ \A w \in Workers :
              ReachedMetricsCheck(w) =>
                 /\ Counters(w)' = Counters(w)
                 /\ samplesDue' = samplesDue
                 /\ readLock[worker[w].bufferPosition]
                 /\ ~readLock'[worker[w].bufferPosition]
                 /\ worker'[w].pc = "select"
                 /\ panicked' = "none"
        /\ (Running /\ cpc = "unlock" /\ (cpc' # cpc \/ panicked' = "unlock")) =>
                 /\ bytesConsumed' = bytesConsumed
                 /\ filesConsumed' = filesConsumed
                 /\ changeObjectLock[nextObjectBufferPosition]
                 /\ ~changeObjectLock'[nextObjectBufferPosition]
                 /\ cpc' = "idle"]_vars

\* Collection was enabled and disabled again; one download and one
\* consumption were counted, and more downloads and consumptions than that
\* were completed.
C11_Witness ==
    /\ toggles = 2 /\ ~CollectMetrics
    /\ filesConsumed = 1 /\ Len(observed) >= 2 /\ cpc = "idle"
    /\ \E w \in Workers : worker[w].filesDownloaded >= 1
    /\ Len(published) >
          SumOver([w \in Workers |-> worker[w].filesDownloaded], Workers)
          + Cardinality({w \in Workers : worker[w].pc \in {"download", "failed"}})

\* C12: zero-size fast path.  A download whose Stat size is 0 sets the slot's
\* size to 0, appends no latency sample, leaves bytesDownloaded unchanged,
\* increments filesDownloaded exactly when collection is enabled, releases the
\* slot's readLock and waits for the next assignment.
C12_ZeroSizeFastPath ==
    [][\A w \in Workers :
         (Running /\ worker[w].pc = "download" /\ WorkerDownloadZero(w)) =>
            /\ size'[worker[w].bufferPosition] = 0
            /\ worker'[w].latencies = worker[w].latencies
            /\ worker'[w].bytesDownloaded = worker[w].bytesDownloaded
            /\ worker'[w].filesDownloaded =
                  worker[w].filesDownloaded + (IF CollectMetrics THEN 1 ELSE 0)
            /\ readLock[worker[w].bufferPosition]
            /\ ~readLock'[worker[w].bufferPosition]
            /\ worker'[w].pc = "select"
            /\ panicked' = "none"]_vars

\* A worker counted a file without a latency sample and the caller then read
\* size 0 from the slot, with collection enabled.
C12_Witness ==
    /\ CollectMetrics
    /\ \E w \in Workers :
          worker[w].filesDownloaded >= 1 /\ worker[w].latencies = 0
    /\ samplesDue = 0
    /\ filesConsumed >= 1 /\ bytesConsumed = 0

\* C13: recoverable download errors.  When the copy of a non-empty object
\* fails or reads another number of bytes than declared, a failure before any
\* byte was read included, with collection enabled or not, the worker stores
\* the bytes read as the slot's size, releases readLock and waits for the next
\* assignment: the worker never fails on this path.
C13_CopyErrorRecoverable ==
    [][\A w \in Workers :
         \A s \in 1 .. MaxSize, n \in 0 .. MaxSize :
            (Running /\ worker[w].pc = "download" /\ n # s
             /\ WorkerDownloadData(w, s, n)) =>
               /\ panicked' = "none"
               /\ size'[worker[w].bufferPosition] = n
               /\ ~readLock'[worker[w].bufferPosition]
               /\ worker'[w].pc = "select"]_vars

\* C14: partial degradation.  When one of N >= 2 workers has exited on a
\* GetObject or Stat error, the pipeline is not stalled: the caller is never
\* left waiting in NextObject for a slot that only the exited worker would have
\* made ready.
C14_FailureDoesNotStall ==
    \A w \in Workers :
        (Running /\ Concurrency >= 2 /\ worker[w].pc = "failed") =>
            ~(/\ cpc = "lock"
              /\ nextObjectBufferPosition = worker[w].bufferPosition
              /\ readLock[nextObjectBufferPosition])

\* Assignments the feeder can still publish once the shutdown signal is set: the
\* rest of its first pass over the listing, or the one assignment of the replay
\* loop whose shutdown check it already passed.
FeederBudget ==
    CASE fpc = "list" -> MaxKeys
      [] fpc \in {"rangeLock", "rangeSend"} -> Len(objectNames) - rangeIdx + 1
      [] fpc \in {"loopLock", "loopSend"} -> 1
      [] OTHER -> 0

\* C15: the feeder stops producing on shutdown.  Once Close was called the
\* number of assignments the feeder can still publish never grows and every
\* publication uses one up, wherever the feeder was at Close; back at the
\* replay loop's select it publishes nothing more.
C15_FeederStopsProducing ==
    [][done =>
        /\ FeederBudget' <= FeederBudget
        /\ Len(published') - Len(published) <= FeederBudget - FeederBudget'
        /\ (fpc = "select" => published' = published)]_vars

\* After Close the feeder is back at the select and has logged the stop, having
\* published before.
C15_Witness ==
    /\ done /\ stopLogged /\ fpc = "select"
    /\ Len(published) >= 2
    /\ panicked = "none"

FeederPositions == {"list", "rangeLock", "rangeSend", "select", "loopLock", "loopSend"}

\* C16: the feeder never returns.  It is always at a position inside the
\* routine; at the replay loop's select with the shutdown signal set it logs
\* and stays in the loop.
C16_FeederNeverReturns ==
    /\ [](fpc \in FeederPositions)
    /\ [][(done /\ fpc = "select" /\ (fpc' # fpc \/ stopLogged' # stopLogged))
            => (fpc' = "select" /\ stopLogged')]_vars

\* The feeder saw the shutdown signal and logged; Metrics has returned its
\* report and the feeder is still in its loop.
C16_Witness ==
    /\ done /\ stopLogged /\ fpc = "select"
    /\ mpc = "returned"
    /\ panicked = "none"

\* C17: feeder assignment order.  The k-th assignment published (k = 0, 1, ...)
\* is key k mod K of the listing for slot k mod N, across the hand-over from
\* the first pass to the replay loop.
C17_FeederAssignmentOrder ==
    \A k \in 1 .. Len(published) :
        published[k] = <<objectNames[((k - 1) % Len(objectNames)) + 1],
                         (k - 1) % Concurrency>>

\* The replay loop published after the first pass, with a listing whose length
\* differs from the number of slots.
C17_Witness ==
    /\ Len(objectNames) # Concurrency
    /\ Len(published) >= Len(objectNames) + 2

\* C18: no unlock of a free mutex.  A worker about to unlock a slot's readLock
\* finds it held, NextObject about to unlock a slot's changeObjectLock finds it
\* held, and the process never stops on an unlock of an unlocked mutex.
C18_NoUnlockOfFreeMutex ==
    /\ panicked # "unlock"
    /\ \A w \in Workers :
          worker[w].pc = "download" => readLock[worker[w].bufferPosition]
    /\ cpc = "unlock" => changeObjectLock[nextObjectBufferPosition]

\* After Close, a later NextObject call is about to unlock, while a worker is
\* about to unlock another slot.
C18_Witness ==
    /\ done /\ cpc = "unlock" /\ Len(observed) >= 2
    /\ \E w \in Workers : worker[w].pc = "download"

\* C19: feeder index in range.  For every listing, the empty one included, the
\* feeder never reads objectNames[index] with index outside the listing (with
\* Concurrency >= 1 no other index of the feeder or of NextObject can be out
\* of range).
C19_FeederIndexInRange == panicked # "index"

\* C20: a dead worker blocks its slot and the report.  Once a worker exited on
\* a GetObject or Stat error it stays exited, its slot stays in the filling
\* state and is never handed to the caller or to another worker, a NextObject
\* call waiting for that slot goes on waiting, and Metrics does not return.
C20_DeadWorkerAt(w) ==
    LET i == worker[w].bufferPosition IN
    /\ readLock[i] /\ changeObjectLock[i]
    /\ ~ConsumerOn(i)
    /\ WorkersOn(i) = {w}
    /\ Pub(i) = Obs(i) + 1
    /\ mpc \notin {"return", "returned"}
    /\ mReceived[w] = <<0, 0, 0>>

C20_DeadWorkerBlocks ==
    /\ [](\A w \in Workers : worker[w].pc = "failed" => C20_DeadWorkerAt(w))
    /\ [][\A w \in Workers :
            worker[w].pc = "failed" =>
               /\ worker'[w] = worker[w]
               /\ (cpc = "lock"
                   /\ nextObjectBufferPosition = worker[w].bufferPosition)
                     => cpc' = "lock"]_vars

\* A worker exited on an error; the caller waits in NextObject for its slot;
\* Close was called and Metrics, having heard from the other worker, waits.
C20_Witness ==
    /\ done /\ panicked = "none"
    /\ cpc = "lock"
    /\ \E w \in Workers :
          /\ worker[w].pc = "failed"
          /\ worker[w].bufferPosition = nextObjectBufferPosition
    /\ mpc = "recvLatencies" /\ mcount >= 1

====
